---- MODULE Spec2Model ----
(***************************************************************************)
(* Batting statistics dashboard (app.py).                                  *)
(*                                                                         *)
(* compute_batter_stats turns a table of plate-appearance rows into one    *)
(* summary row per batter of team "TOK", ordered by OPS; main applies the  *)
(* GameLevel, PitcherThrows and date filters before calling it.            *)
(*                                                                         *)
(* The counting and rate functions (seki, dasu, countpr, BA, OBP, SA, OPS) *)
(* are imported from baseballmetrics, which is not part of app.py; they    *)
(* are modelled here from the written specification of the calculator.     *)
(*                                                                         *)
(* Rates are exact rationals <<numerator, denominator>> in lowest terms    *)
(* with a positive denominator, so that equality of two rates is equality  *)
(* of the values.                                                          *)
(***************************************************************************)
EXTENDS Integers, Sequences, FiniteSets

\* ---------------------------------------------------------------- bounds
MaxRows == 3
MaxMainRows == 2
MaxRuns == 2

\* ------------------------------------------------------------ vocabulary
\* A missing batter identity (NaN in the Batter column).
NoBatter == "nan"

\* Batter identities in the order groupby sorts its keys (code point order).
BatterOrder == <<"X", "x", "y">>

HitCodes == {"Single", "Double", "Triple", "HomeRun"}

\* Codes that are not at-bats: the walk and the conventionally excluded ones.
NonAtBatCodes == {"Walk", "Sacrifice", "HitByPitch"}

PlayResults == HitCodes \cup NonAtBatCodes \cup {"Strikeout"}

Row(b, t, p, l, h, d) ==
    [Batter |-> b, BatterTeam |-> t, PlayResult |-> p,
     Level |-> l, PitcherThrows |-> h, Date |-> d]

\* ------------------------------------------------------------- rationals
RECURSIVE Gcd(_, _)
Gcd(a, b) == IF b = 0 THEN a ELSE Gcd(b, a % b)

Rat(n, d) == LET g == Gcd(n, d) IN IF n = 0 THEN <<0, 1>> ELSE <<n \div g, d \div g>>

Zero == <<0, 1>>

RatAdd(p, q) == Rat(p[1] * q[2] + q[1] * p[2], p[2] * q[2])

\* p >= q
RatGeq(p, q) == p[1] * q[2] >= q[1] * p[2]

\* p > q
RatGt(p, q) == p[1] * q[2] > q[1] * p[2]

\* --------------------------------------------- baseballmetrics (imported)
RECURSIVE CountIf(_, _)
CountIf(group, codes) ==
    IF group = <<>> THEN 0
    ELSE (IF Head(group).PlayResult \in codes THEN 1 ELSE 0) + CountIf(Tail(group), codes)

\* plate appearances: every row of the group is one
seki(group) == Len(group)

\* at-bats: every row except the walk and the excluded outcomes
dasu(group) == Len(group) - CountIf(group, NonAtBatCodes)

\* rows whose play-result code is exactly pr
countpr(group, pr) == CountIf(group, {pr})

Hits(group) == CountIf(group, HitCodes)

TotalBases(group) ==
    countpr(group, "Single") + 2 * countpr(group, "Double")
    + 3 * countpr(group, "Triple") + 4 * countpr(group, "HomeRun")

BA(group) == IF dasu(group) = 0 THEN Zero ELSE Rat(Hits(group), dasu(group))

OBP(group, mc) ==
    LET extraOn  == IF mc THEN countpr(group, "HitByPitch") ELSE 0
        extraDen == IF mc THEN countpr(group, "HitByPitch") + countpr(group, "Sacrifice") ELSE 0
        num == Hits(group) + countpr(group, "Walk") + extraOn
        den == dasu(group) + countpr(group, "Walk") + extraDen
    IN  IF den = 0 THEN Zero ELSE Rat(num, den)

SA(group) == IF dasu(group) = 0 THEN Zero ELSE Rat(TotalBases(group), dasu(group))

\* zero at-bats: 0.0 by the edge-case policy; otherwise on-base plus slugging
\* with the on-base percentage of the default flag
OPS(group) == IF dasu(group) = 0 THEN Zero ELSE RatAdd(OBP(group, FALSE), SA(group))

\* -------------------------------------------------- compute_batter_stats
\* Query without the team condition
QueryAnyTeam(df) == df

\* df.query('BatterTeam == "TOK"').reset_index(drop=True)
Query(df) == SelectSeq(df, LAMBDA r : r.BatterTeam = "TOK")

GroupOf(df, b) == SelectSeq(df, LAMBDA r : r.Batter = b)

\* GroupBy with the keys compared without regard to case
GroupByFolded(df) ==
    LET Fold(b) == IF b = "x" THEN "X" ELSE b
        GroupFolded(b) == SelectSeq(df, LAMBDA r : Fold(r.Batter) = b)
        keys == SelectSeq(BatterOrder, LAMBDA b : GroupFolded(b) # <<>>)
    IN  [i \in 1..Len(keys) |-> [batter |-> keys[i], group |-> GroupFolded(keys[i])]]

\* df.groupby("Batter"): one group per distinct key, keys ascending, rows
\* with a missing key left out
GroupBy(df) ==
    LET keys == SelectSeq(BatterOrder, LAMBDA b : GroupOf(df, b) # <<>>)
    IN  [i \in 1..Len(keys) |-> [batter |-> keys[i], group |-> GroupOf(df, keys[i])]]

StatsBase(batter, group) ==
    [batter    |-> batter,
     seki      |-> seki(group),
     dasu      |-> dasu(group),
     hits      |-> Hits(group),
     single    |-> countpr(group, "Single"),
     double    |-> countpr(group, "Double"),
     triple    |-> countpr(group, "Triple"),
     homerun   |-> countpr(group, "HomeRun"),
     walk      |-> countpr(group, "Walk"),
     strikeout |-> countpr(group, "Strikeout"),
     BA        |-> BA(group),
     OBP       |-> OBP(group, FALSE),
     SA        |-> SA(group),
     OPS       |-> OPS(group)]

\* Stats with the on-base percentage computed with the flag on
StatsObpFlagOn(batter, group) ==
    [StatsBase(batter, group) EXCEPT !.OBP = OBP(group, TRUE)]

\* Stats with the home runs left out of the hits
StatsHitsNoHomerun(batter, group) ==
    [StatsBase(batter, group) EXCEPT !.hits = @ - countpr(group, "HomeRun")]

\* Stats with OPS added up in place instead of calling OPS
StatsOpsInline(batter, group) ==
    [StatsBase(batter, group) EXCEPT !.OPS = RatAdd(OBP(group, FALSE), SA(group))]

\* the stats dictionary of one group
Stats(batter, group) ==
    LET single  == countpr(group, "Single")
        double  == countpr(group, "Double")
        triple  == countpr(group, "Triple")
        homerun == countpr(group, "HomeRun")
    IN  [batter    |-> batter,
         seki      |-> seki(group),
         dasu      |-> dasu(group),
         hits      |-> single + double + triple + homerun,
         single    |-> countpr(group, "Single"),
         double    |-> countpr(group, "Double"),
         triple    |-> countpr(group, "Triple"),
         homerun   |-> countpr(group, "HomeRun"),
         walk      |-> countpr(group, "Walk"),
         strikeout |-> countpr(group, "Strikeout"),
         BA        |-> BA(group),
         OBP       |-> OBP(group, FALSE),
         SA        |-> SA(group),
         OPS       |-> OPS(group)]

Remove(s, i) == SubSeq(s, 1, i - 1) \o SubSeq(s, i + 1, Len(s))

\* sort_values whose result is dropped: the rows stay in group order
SortValuesDropped(rows, kind) == rows

\* Position of the row sort_values puts first: a row of greatest OPS.  The
\* default sort kind is quicksort, which is not a stable sort, so which of
\* several rows of equal OPS comes first is left to the sorting routine of
\* the build: "stable" keeps them in their order, "reverse" reverses them.
FirstOf(rows, kind) ==
    LET top == {i \in 1..Len(rows) : \A j \in 1..Len(rows) : RatGeq(rows[i].OPS, rows[j].OPS)}
    IN  IF kind = "stable"
        THEN CHOOSE i \in top : \A j \in top : i <= j
        ELSE CHOOSE i \in top : \A j \in top : i >= j

RECURSIVE SortValues(_, _)
\* result_df.sort_values("OPS", ascending=False)
SortValues(rows, kind) ==
    IF rows = <<>> THEN <<>>
    ELSE LET i == FirstOf(rows, kind)
         IN  <<rows[i]>> \o SortValues(Remove(rows, i), kind)

KeyError == [status |-> "KeyError", rows |-> <<>>]

\* The value compute_batter_stats(df) returns, or the error it raises:
\* selecting the columns of a frame built from no dictionaries raises KeyError.
compute_batter_stats(df, kind) ==
    LET filtered == Query(df)
        groups   == GroupBy(filtered)
        results  == [i \in 1..Len(groups) |-> Stats(groups[i].batter, groups[i].group)]
    IN  IF results = <<>>
        THEN KeyError
        ELSE [status |-> "ok", rows |-> SortValues(results, kind)]

\* ------------------------------------------------------------ input rows
\* Rows given to compute_batter_stats directly: team "TOK" rows of batter "x"
\* over every play-result code and of batter "X" (the same name in another
\* case) over three codes, rows of another team, and a "TOK" row without a
\* batter identity.
StatRows ==
    {Row("x", "TOK", p, "A", "Right", "2025-03-01") : p \in PlayResults}
    \cup {Row("X", "TOK", p, "A", "Right", "2025-03-01") : p \in {"Single", "Walk", "Strikeout"}}
    \cup {Row(b, "OTH", "Single", "A", "Right", "2025-03-01") : b \in {"x", "y"}}
    \cup {Row(NoBatter, "TOK", "Single", "A", "Right", "2025-03-01")}

\* Rows of the combined table main loads.
MainRows ==
    {Row("x", t, "Single", l, h, d) :
        t \in {"TOK", "OTH"}, l \in {"A", "B"}, h \in {"Right", "Left"},
        d \in {"2025-03-01", "2025-03-02", "bad"}}

TablesOf(rows, n) == UNION {[1..k -> rows] : k \in 0..n}

\* what load_csv_files_from_private_github() returns: None or a table
None == [none |-> TRUE, frame |-> <<>>]

Frame(t) == [none |-> FALSE, frame |-> t]

\* ------------------------------------------------------------------ state
VARIABLES
    table,      \* the caller's table passed to compute_batter_stats
    given,      \* the table as the caller first built it
    kind,       \* tie behaviour of the build's quicksort
    returns,    \* what each call of compute_batter_stats returned or raised
    pc,         \* position of main
    loaded,     \* what the cached loader returns
    df,         \* main's local table
    A_checked, B_checked, right_checked, left_checked,
    selected_date_range,
    stats_df,   \* result of compute_batter_stats inside main
    messages    \* the st.* calls made so far

vars == <<table, given, kind, returns, pc, loaded, df, A_checked, B_checked,
          right_checked, left_checked, selected_date_range, stats_df, messages>>

mainVars == <<pc, loaded, df, A_checked, B_checked, right_checked, left_checked,
              selected_date_range, stats_df, messages>>

statVars == <<table, given, kind, returns>>

NoStats == [status |-> "none", rows |-> <<>>]

\* main before it runs
MainIdle(p, l) ==
    /\ pc = p
    /\ loaded = l
    /\ df = <<>>
    /\ A_checked = TRUE
    /\ B_checked = TRUE
    /\ right_checked = TRUE
    /\ left_checked = TRUE
    /\ selected_date_range = <<0, 0>>
    /\ stats_df = NoStats
    /\ messages = <<>>

\* ------------------------------------------- calls of compute_batter_stats
Init ==
    /\ table \in TablesOf(StatRows, MaxRows)
    /\ given = table
    /\ kind \in {"stable", "reverse"}
    /\ returns = <<>>
    /\ MainIdle("imported", None)

\* compute_batter_stats filtering the caller's table in place
ComputeBatterStatsInPlace ==
    /\ Len(returns) < MaxRuns
    /\ returns' = Append(returns, compute_batter_stats(table, kind))
    /\ table' = Query(table)
    /\ UNCHANGED <<given, kind>>
    /\ UNCHANGED mainVars

\* One call compute_batter_stats(table).  The function works on a copy
\* (df = df.copy()) and rebinds its local name, so the caller's table stays.
ComputeBatterStats ==
    /\ Len(returns) < MaxRuns
    /\ returns' = Append(returns, compute_batter_stats(table, kind))
    /\ table' = table
    /\ UNCHANGED <<given, kind>>
    /\ UNCHANGED mainVars

Next == ComputeBatterStats

Spec == Init /\ [][Next]_vars

\* ------------------------------------------------------------------- main
NaT == 0

\* pd.to_datetime(..., errors="coerce") as a day number; NaT when unparseable
ToDatetime(d) ==
    CASE d = "2025-03-01" -> 1
      [] d = "2025-03-02" -> 2
      [] OTHER -> NaT

\* LevelFilter without the branch for level A alone
LevelFilterOnlyB(t, a, b) ==
    IF b /\ ~a THEN SelectSeq(t, LAMBDA r : r.Level = "B") ELSE t

\* the GameLevel branch of main: the table after the Level filter
LevelFilter(t, a, b) ==
    IF a /\ ~b THEN SelectSeq(t, LAMBDA r : r.Level = "A")
    ELSE IF b /\ ~a THEN SelectSeq(t, LAMBDA r : r.Level = "B")
    ELSE t

\* the PitcherThrows branch of main: the table after the handedness filter
ThrowsFilter(t, r, l) ==
    IF r /\ ~l THEN SelectSeq(t, LAMBDA x : x.PitcherThrows = "Right")
    ELSE IF l /\ ~r THEN SelectSeq(t, LAMBDA x : x.PitcherThrows = "Left")
    ELSE t

Dates(t) == {t[i].Date : i \in 1..Len(t)}

Min(S) == CHOOSE x \in S : \A y \in S : x <= y

Max(S) == CHOOSE x \in S : \A y \in S : x >= y

InitMain ==
    /\ table = <<>>
    /\ given = <<>>
    /\ kind \in {"stable", "reverse"}
    /\ returns = <<>>
    /\ \E l \in {None} \cup {Frame(t) : t \in TablesOf(MainRows, MaxMainRows)} :
          MainIdle("start", l)

\* df = load_csv_files_from_private_github(); return when it is None
Load ==
    /\ pc = "start"
    /\ IF loaded.none
       THEN /\ messages' = Append(messages, "error_nocsv")
            /\ pc' = "returned"
            /\ df' = df
       ELSE /\ df' = loaded.frame
            /\ pc' = "level"
            /\ messages' = messages
    /\ UNCHANGED <<loaded, A_checked, B_checked, right_checked, left_checked,
                   selected_date_range, stats_df>>
    /\ UNCHANGED statVars

\* the GameLevel checkboxes, the Level filter and the two early returns
GameLevel ==
    /\ pc = "level"
    /\ \E a \in BOOLEAN, b \in BOOLEAN :
        /\ A_checked' = a
        /\ B_checked' = b
        /\ IF ~a /\ ~b
           THEN /\ messages' = Append(messages, "warning_level")
                /\ pc' = "returned"
                /\ df' = df
           ELSE /\ df' = LevelFilter(df, a, b)
                /\ IF Len(df') = 0
                   THEN /\ messages' = Append(messages, "warning_nodata")
                        /\ pc' = "returned"
                   ELSE /\ messages' = messages
                        /\ pc' = "throws"
    /\ UNCHANGED <<loaded, right_checked, left_checked, selected_date_range, stats_df>>
    /\ UNCHANGED statVars

\* the PitcherThrows checkboxes, the handedness filter and the early returns
PitcherThrows ==
    /\ pc = "throws"
    /\ \E r \in BOOLEAN, l \in BOOLEAN :
        /\ right_checked' = r
        /\ left_checked' = l
        /\ IF ~r /\ ~l
           THEN /\ messages' = Append(messages, "warning_throws")
                /\ pc' = "returned"
                /\ df' = <<>>
           ELSE /\ df' = ThrowsFilter(df, r, l)
                /\ IF Len(df') = 0
                   THEN /\ messages' = Append(messages, "warning_nodata")
                        /\ pc' = "returned"
                   ELSE /\ messages' = messages
                        /\ pc' = "date"
    /\ UNCHANGED <<loaded, A_checked, B_checked, selected_date_range, stats_df>>
    /\ UNCHANGED statVars

\* Date parsing, dropna, the slider and the date filter.  When no row has a
\* parseable date the slider is given NaT bounds: it either raises (caught by
\* the except clause) or lets the empty table through.
DateQuery ==
    /\ pc = "date"
    /\ LET parsed == [i \in 1..Len(df) |-> [df[i] EXCEPT !.Date = ToDatetime(df[i].Date)]]
           kept   == SelectSeq(parsed, LAMBDA r : r.Date # NaT)
       IN  IF kept = <<>>
           THEN \/ /\ pc' = "failed"
                   /\ messages' = Append(messages, "error_failed")
                   /\ df' = kept
                   /\ UNCHANGED selected_date_range
                \/ /\ pc' = "compute"
                   /\ messages' = messages
                   /\ df' = kept
                   /\ selected_date_range' = <<NaT, NaT>>
           ELSE \E lo \in Min(Dates(kept))..Max(Dates(kept)) :
                \E hi \in lo..Max(Dates(kept)) :
                    /\ selected_date_range' = <<lo, hi>>
                    /\ df' = SelectSeq(kept, LAMBDA r : r.Date >= lo /\ r.Date <= hi)
                    /\ pc' = "compute"
                    /\ messages' = messages
    /\ UNCHANGED <<loaded, A_checked, B_checked, right_checked, left_checked, stats_df>>
    /\ UNCHANGED statVars

\* stats_df = compute_batter_stats(df) and its display; an exception is
\* reported by the except clause
ShowStats ==
    /\ pc = "compute"
    /\ LET r == compute_batter_stats(df, kind)
       IN  IF r.status = "ok"
           THEN /\ stats_df' = r
                /\ messages' = Append(messages, "dataframe")
                /\ pc' = "shown"
           ELSE /\ stats_df' = stats_df
                /\ messages' = Append(messages, "error_failed")
                /\ pc' = "failed"
    /\ UNCHANGED <<loaded, df, A_checked, B_checked, right_checked, left_checked,
                   selected_date_range>>
    /\ UNCHANGED statVars

NextMain == Load \/ GameLevel \/ PitcherThrows \/ DateQuery \/ ShowStats

SpecMain == InitMain /\ [][NextMain]_vars

\* ------------------------------------------------------------ properties
\* the rows of every successful return
OkRows == {returns[k].rows : k \in {n \in 1..Len(returns) : returns[n].status = "ok"}}

\* number of rows of the caller's table of team "TOK", batter b, code in codes
TokCount(b, codes) ==
    Cardinality({j \in 1..Len(table) :
        /\ table[j].Batter = b
        /\ table[j].BatterTeam = "TOK"
        /\ table[j].PlayResult \in codes})

OtherTeamRows(b) == {j \in 1..Len(table) : table[j].Batter = b /\ table[j].BatterTeam # "TOK"}

BatterRank(b) == CHOOSE i \in 1..Len(BatterOrder) : BatterOrder[i] = b

\* C1: every batter of the result has an input row of team "TOK", and its
\* plate appearances and outcome counts count its "TOK" rows only.
C1_TeamFilter ==
    \A rows \in OkRows : \A i \in 1..Len(rows) :
        LET r == rows[i] IN
        /\ TokCount(r.batter, PlayResults) >= 1
        /\ r.seki = TokCount(r.batter, PlayResults)
        /\ r.single = TokCount(r.batter, {"Single"})
        /\ r.double = TokCount(r.batter, {"Double"})
        /\ r.triple = TokCount(r.batter, {"Triple"})
        /\ r.homerun = TokCount(r.batter, {"HomeRun"})
        /\ r.walk = TokCount(r.batter, {"Walk"})
        /\ r.strikeout = TokCount(r.batter, {"Strikeout"})

\* a result for a table in which a listed batter also has rows of another
\* team and another batter has rows of another team only
C1_Witness ==
    /\ OkRows # {}
    /\ OtherTeamRows("y") # {}
    /\ \E rows \in OkRows : \E i \in 1..Len(rows) :
          rows[i].batter = "x" /\ OtherTeamRows("x") # {}

\* C2: with no row of team "TOK" the call returns an empty result and raises
\* nothing.
C2_EmptyResult ==
    (/\ Len(returns) >= 1
     /\ \A j \in 1..Len(table) : table[j].BatterTeam # "TOK")
    => returns[1] = [status |-> "ok", rows |-> <<>>]

C4_Hits ==
    \A rows \in OkRows : \A i \in 1..Len(rows) :
        LET r == rows[i] IN
        /\ r.hits = r.single + r.double + r.triple + r.homerun
        /\ r.single = TokCount(r.batter, {"Single"})
        /\ r.double = TokCount(r.batter, {"Double"})
        /\ r.triple = TokCount(r.batter, {"Triple"})
        /\ r.homerun = TokCount(r.batter, {"HomeRun"})

\* a batter with three hits of different kinds, a home run among them
C4_Witness ==
    \E rows \in OkRows : \E i \in 1..Len(rows) :
        /\ rows[i].hits = 3
        /\ rows[i].homerun = 1
        /\ rows[i].double = 1
        /\ rows[i].triple = 1

\* C5: a batter without at-bats has batting average, slugging average and
\* OPS 0, and the call that computes the row returns normally.
C5_ZeroAtBats ==
    \A k \in 1..Len(returns) :
        /\ (\E b \in {"X", "x"} :
               /\ TokCount(b, PlayResults) > 0
               /\ TokCount(b, PlayResults \ NonAtBatCodes) = 0)
           => returns[k].status = "ok"
        /\ \A i \in 1..Len(returns[k].rows) :
              LET r == returns[k].rows[i] IN
              r.dasu = 0 => (r.BA = Zero /\ r.SA = Zero /\ r.OPS = Zero)

\* a batter whose only events are walks
C5_Witness ==
    \E rows \in OkRows : \E i \in 1..Len(rows) :
        rows[i].dasu = 0 /\ rows[i].walk = rows[i].seki /\ rows[i].seki >= 1

\* C6: OPS does not increase from one row of the result to the next.
C6_SortedByOps ==
    \A rows \in OkRows : \A i \in 1..Len(rows) : \A j \in 1..Len(rows) :
        i < j => RatGeq(rows[i].OPS, rows[j].OPS)

\* the later group has the greater OPS and comes first
C6_Witness ==
    \E rows \in OkRows :
        /\ Len(rows) = 2
        /\ rows[1].batter = "x"
        /\ rows[2].batter = "X"
        /\ RatGt(rows[1].OPS, rows[2].OPS)

\* C7: one row for each batter identity with a "TOK" row, and no other row.
C7_OneRowPerBatter ==
    \A rows \in OkRows :
        /\ \A i \in 1..Len(rows) : \A j \in 1..Len(rows) :
              rows[i].batter = rows[j].batter => i = j
        /\ {rows[i].batter : i \in 1..Len(rows)}
             = {table[j].Batter : j \in {n \in 1..Len(table) :
                    table[n].BatterTeam = "TOK" /\ table[n].Batter # NoBatter}}

\* batters whose names differ in case only, next to a batter of another team
\* and a row without a batter
C7_Witness ==
    /\ \E rows \in OkRows : Len(rows) = 2
    /\ \E j \in 1..Len(table) : table[j].Batter = NoBatter \/ table[j].BatterTeam # "TOK"

\* C8: rows of equal OPS appear in the order of the groups.
C8_StableTies ==
    \A rows \in OkRows : \A i \in 1..Len(rows) : \A j \in 1..Len(rows) :
        (i < j /\ rows[i].OPS = rows[j].OPS)
        => BatterRank(rows[i].batter) < BatterRank(rows[j].batter)

\* C9: the second call returns what the first returned, and the caller's
\* table is what it was before the calls.
C9_Idempotent ==
    /\ \A k \in 1..Len(returns) : returns[k] = returns[1]
    /\ Len(returns) >= 1 => table = given

\* two calls on a table with rows of both teams and two batters in the result
C9_Witness ==
    /\ Len(returns) = 2
    /\ returns[2].status = "ok"
    /\ Len(returns[2].rows) = 2
    /\ \E j \in 1..Len(table) : table[j].BatterTeam # "TOK"

\* the last st.* call main made is one of ms
LastMessageIn(ms) == messages # <<>> /\ messages[Len(messages)] \in ms

Displayed == \E k \in 1..Len(messages) : messages[k] = "dataframe"

\* a row of the loaded table the checked levels let through
LevelKept(r) ==
    \/ A_checked /\ B_checked
    \/ A_checked /\ r.Level = "A"
    \/ B_checked /\ r.Level = "B"

\* a row of the loaded table the checked handedness boxes let through
ThrowsKept(r) ==
    \/ right_checked /\ left_checked
    \/ right_checked /\ r.PitcherThrows = "Right"
    \/ left_checked /\ r.PitcherThrows = "Left"

\* C10: main reaches compute_batter_stats only with a level and a handedness
\* checked and rows left after both filters; otherwise it has returned with a
\* warning and neither computed nor displayed; with one level (handedness)
\* checked, the rows given to compute_batter_stats all have it.
C10_FiltersBeforeStats ==
    /\ pc \in {"compute", "shown", "failed"} =>
          /\ A_checked \/ B_checked
          /\ right_checked \/ left_checked
          /\ \E i \in 1..Len(loaded.frame) : LevelKept(loaded.frame[i])
          /\ \E i \in 1..Len(loaded.frame) :
                LevelKept(loaded.frame[i]) /\ ThrowsKept(loaded.frame[i])
    /\ pc \in {"compute", "shown"} =>
          \A i \in 1..Len(df) :
              /\ (A_checked /\ ~B_checked) => df[i].Level = "A"
              /\ (B_checked /\ ~A_checked) => df[i].Level = "B"
              /\ (right_checked /\ ~left_checked) => df[i].PitcherThrows = "Right"
              /\ (left_checked /\ ~right_checked) => df[i].PitcherThrows = "Left"
    /\ (pc \in {"throws", "date", "compute", "shown", "failed", "returned"} /\ ~loaded.none
        /\ (\/ ~A_checked /\ ~B_checked
            \/ ~right_checked /\ ~left_checked
            \/ \A i \in 1..Len(loaded.frame) : ~LevelKept(loaded.frame[i])
            \/ \A i \in 1..Len(loaded.frame) :
                  ~(LevelKept(loaded.frame[i]) /\ ThrowsKept(loaded.frame[i]))))
       => /\ pc = "returned"
          /\ LastMessageIn({"warning_level", "warning_throws", "warning_nodata"})
    /\ pc = "returned" => (stats_df = NoStats /\ ~Displayed)
    /\ (stats_df # NoStats \/ Displayed) => pc = "shown"

\* statistics displayed with only level A checked on a table that has a
\* level B row, and only Left checked on a table that has a Right row
C10_Witness ==
    /\ pc = "shown"
    /\ A_checked /\ ~B_checked
    /\ left_checked /\ ~right_checked
    /\ \E i \in 1..Len(loaded.frame) : loaded.frame[i].Level = "B"
    /\ \E i \in 1..Len(loaded.frame) : loaded.frame[i].PitcherThrows = "Right"

====
